---- MODULE Spec2Model ----
(***************************************************************************)
(* Model of src/initialize.py: the initialisation sequence a Streamlit     *)
(* page load runs (session state, session id, logger, catalog enrichment,  *)
(* retriever build).                                                       *)
(*                                                                         *)
(* Text is ASCII only here, so the three stock labels of the source are    *)
(* written in romaji: "ari" (in stock), "nokoriwazuka" (low stock) and     *)
(* "nashi" (out of stock).                                                 *)
(***************************************************************************)
EXTENDS Naturals, Sequences, FiniteSets, TLC

VARIABLES
    catalog,      \* the CSV file at ct.RAG_SOURCE_PATH: a sequence of records, each a sequence of fields
    log_dir,      \* whether the directory ct.LOG_DIR_PATH exists
    handlers,     \* logging: logger name -> the handlers attached to that logger
    keys,         \* session -> the keys present in that session's st.session_state
    messages,     \* session -> st.session_state.messages
    session_id,   \* session -> st.session_state.session_id
    retriever,    \* session -> st.session_state.retriever
    pc,           \* session -> the step of initialize() the session's script run is at
    runs,         \* session -> the number of script runs (page loads) so far
    result,       \* session -> how the session's last run of initialize() ended
    fieldnames,   \* session -> local of initialize_stock_status
    reader,       \* session -> the records the csv reader has still to yield
    rows,         \* session -> local of initialize_stock_status
    calls,        \* session -> the classification calls of the current run: <<product_name, stock_status>>
    completion,   \* session -> the text of the last completion received in the current enrichment
    before,       \* session -> the catalog as it was when the current run began
    builds,       \* session -> the number of times the construction path of initialize_retriever was entered
    writes,       \* the number of times the catalog was opened for writing
    edits,        \* the number of edits made to the catalog from outside
    first_logger  \* the first session that called initialize_logger (0: none yet)

vars == <<catalog, log_dir, handlers, keys, messages, session_id, retriever, pc, runs,
          result, fieldnames, reader, rows, calls, completion, before, builds, writes,
          edits, first_logger>>

(***************************************************************************)
(* Bounds.                                                                 *)
(***************************************************************************)
NumSessions == 2
MaxRows == 3
MaxSharedRows == 1
MaxLoads == 2
MaxMsgs == 1
MaxEdits == 1
MaxLen == 2

Sessions == 1..NumSessions
Uuids == 1..NumSessions

(***************************************************************************)
(* Helpers on sequences.                                                   *)
(***************************************************************************)
Range(f) == {f[i] : i \in DOMAIN f}

RECURSIVE SeqsUpTo(_, _)
SeqsUpTo(S, n) ==
    IF n = 0 THEN {<<>>}
    ELSE LET shorter == SeqsUpTo(S, n - 1)
         IN  shorter \cup {Append(q, x) : q \in {p \in shorter : Len(p) = n - 1}, x \in S}

IsPrefix(p, q) == Len(p) <= Len(q) /\ SubSeq(q, 1, Len(p)) = p

(***************************************************************************)
(* generate_stock_status: the validation of the completion text.           *)
(* A text is a sequence of chunks; a chunk is whitespace, one of the three *)
(* labels or other text.                                                   *)
(***************************************************************************)
Labels == {"ari", "nokoriwazuka", "nashi"}
Whitespace == {" "}
Chunks == Whitespace \cup Labels \cup {"x"}
Responses == SeqsUpTo(Chunks, MaxLen)

RECURSIVE lstrip(_)
lstrip(t) == IF t # <<>> /\ Head(t) \in Whitespace THEN lstrip(Tail(t)) ELSE t

RECURSIVE rstrip(_)
rstrip(t) ==
    IF t # <<>> /\ t[Len(t)] \in Whitespace THEN rstrip(SubSeq(t, 1, Len(t) - 1)) ELSE t

\* A strip that forgets the trailing whitespace.
stripLeadingOnly(t) == lstrip(t)

strip(t) == rstrip(lstrip(t))

RECURSIVE Join(_)
Join(t) == IF t = <<>> THEN "" ELSE Head(t) \o Join(Tail(t))

generate_stock_status(content) ==
    LET stock_status == Join(strip(content))
    IN  IF stock_status \notin {"ari", "nokoriwazuka", "nashi"} THEN "nashi" ELSE stock_status

\* Every value generate_stock_status can return, over the responses considered.
Answers == {generate_stock_status(r) : r \in Responses}

(***************************************************************************)
(* csv.DictReader and csv.DictWriter, as initialize_stock_status uses them.*)
(***************************************************************************)
None == "<None>"

\* reader.fieldnames: the first record of the file; None for an empty file and
\* [] for a blank first line are both the empty sequence here (both are falsy).
Fieldnames(file) == IF file = <<>> THEN <<>> ELSE file[1]

\* The records DictReader yields after the header: blank lines are skipped.
DataRows(file) == IF file = <<>> THEN <<>> ELSE SelectSeq(Tail(file), LAMBDA r : r # <<>>)

LastIndex(fn, k) == CHOOSE i \in DOMAIN fn : fn[i] = k /\ \A j \in DOMAIN fn : fn[j] = k => j <= i

\* DictReader.__next__: dict(zip(fieldnames, row)); fields beyond the header go
\* under restkey (None), columns beyond the row get restval (None).
ReadRow(fn, r) ==
    [fields |-> [k \in Range(fn) |-> IF LastIndex(fn, k) <= Len(r) THEN r[LastIndex(fn, k)] ELSE None],
     rest   |-> IF Len(r) > Len(fn) THEN SubSeq(r, Len(fn) + 1, Len(r)) ELSE <<>>]

\* row["stock_status"] = stock_status
SetStatus(row, stock_status) ==
    [row EXCEPT !.fields = [k \in DOMAIN row.fields \cup {"stock_status"} |->
                              IF k = "stock_status" THEN stock_status ELSE row.fields[k]]]

\* DictWriter._dict_to_list raises ValueError for a dict with a key that is no fieldname.
WrongFields(fn, row) == row.rest # <<>> \/ ~(DOMAIN row.fields \subseteq Range(fn))

\* A writer that writes None as the text str(None) gives.
DictToListNoneAsText(fn, row) ==
    [i \in DOMAIN fn |-> IF fn[i] \in DOMAIN row.fields THEN row.fields[fn[i]] ELSE ""]

\* DictWriter._dict_to_list: one field per fieldname; the csv writer writes None as "".
DictToList(fn, row) ==
    [i \in DOMAIN fn |->
        IF fn[i] \in DOMAIN row.fields /\ row.fields[fn[i]] # None THEN row.fields[fn[i]] ELSE ""]

\* The rows writer.writerows gets through: those before the first it cannot convert.
RECURSIVE Writable(_, _)
Writable(fn, rs) ==
    IF rs = <<>> \/ WrongFields(fn, Head(rs)) THEN <<>>
    ELSE <<Head(rs)>> \o Writable(fn, Tail(rs))

\* The file after open(mode='w'), writer.writeheader() and writer.writerows(rs).
Written(fn, rs) ==
    <<fn>> \o [i \in 1..Len(Writable(fn, rs)) |-> DictToList(fn, Writable(fn, rs)[i])]

\* The test without its second half: the column's presence is not looked at.
SkipEnrichmentHeaderOnly(fn) == fn = <<>>

\* The test without its first half: a file with no header is not set aside.
SkipEnrichmentColumnOnly(fn) == "stock_status" \in Range(fn)

\* The test that makes initialize_stock_status return at once.
SkipEnrichment(fn) == fn = <<>> \/ "stock_status" \in Range(fn)

(***************************************************************************)
(* The catalogs a run may find.                                            *)
(***************************************************************************)
ProductNames == <<"Widget", "Gadget", "Gizmo", "Doohickey", "Whatsit">>
Headers == {<<>>, <<"name">>, <<"price">>, <<"name", "price">>, <<"price", "name">>,
            <<"name", "name">>, <<"name", "stock_status">>}
Shapes == {"full", "short", "long"}

Field(h, j, i) ==
    CASE h[j] = "name" /\ j = 1 -> ProductNames[((i - 1) % Len(ProductNames)) + 1]
      [] h[j] = "name" /\ j > 1 -> "Sprocket"
      [] h[j] = "price"         -> "100"
      [] OTHER                  -> "ari"

Record(h, i, shape) ==
    LET full == [j \in DOMAIN h |-> Field(h, j, i)]
    IN  CASE shape = "full"  -> full
          [] shape = "short" -> IF full = <<>> THEN <<>> ELSE SubSeq(full, 1, Len(full) - 1)
          [] OTHER           -> Append(full, "extra")

CatalogsUpTo(hs, n) ==
    {<<>>} \cup
    UNION {UNION {{<<h>> \o [i \in 1..m |-> Record(h, i, shape[i])] : shape \in [1..m -> Shapes]}
                  : m \in 0..n}
           : h \in hs}

\* The catalogs the enrichment is followed on, those the whole program is followed
\* on, and those the validation of the completions is followed on.
Catalogs == CatalogsUpTo(Headers, MaxRows)
SharedCatalogs == CatalogsUpTo({<<>>, <<"name">>, <<"price">>, <<"name", "stock_status">>}, MaxSharedRows)
EnrichedCatalogs == {<<<<"name", "stock_status">>, <<"Widget", "ari">>>>}
PlainCatalogs == {<<<<"name">>>> \o [i \in 1..m |-> Record(<<"name">>, i, "full")] : m \in 1..MaxRows}

(***************************************************************************)
(* initialize(): the order of its steps.                                   *)
(***************************************************************************)
FirstStep == "initialize_session_state"

\* initialize() with the retriever built before the catalog is enriched.
StepAfterRetrieverFirst(step) ==
    CASE step = "initialize_session_state" -> "initialize_session_id"
      [] step = "initialize_session_id"    -> "initialize_logger"
      [] step = "initialize_logger"        -> "initialize_retriever"
      [] step = "initialize_retriever"     -> "initialize_stock_status"
      [] OTHER                             -> "idle"

StepAfter(step) ==
    CASE step = "initialize_session_state" -> "initialize_session_id"
      [] step = "initialize_session_id"    -> "initialize_logger"
      [] step = "initialize_logger"        -> "initialize_stock_status"
      [] step = "initialize_stock_status"  -> "initialize_retriever"
      [] OTHER                             -> "idle"

\* The result of a run of initialize() that returned.
Returned == "returned"

InitWith(files) ==
    /\ catalog \in files
    /\ log_dir = FALSE
    /\ handlers = [l \in {"root", "LOGGER_NAME"} |-> <<>>]
    /\ keys = [s \in Sessions |-> {}]
    /\ messages = [s \in Sessions |-> <<>>]
    /\ session_id = [s \in Sessions |-> 0]
    /\ retriever = [s \in Sessions |-> [columns |-> <<>>, build |-> 0]]
    /\ pc = [s \in Sessions |-> "idle"]
    /\ runs = [s \in Sessions |-> 0]
    /\ result = [s \in Sessions |-> [how |-> "none", row |-> 0]]
    /\ fieldnames = [s \in Sessions |-> <<>>]
    /\ reader = [s \in Sessions |-> <<>>]
    /\ rows = [s \in Sessions |-> <<>>]
    /\ calls = [s \in Sessions |-> <<>>]
    /\ completion = [s \in Sessions |-> <<>>]
    /\ before = [s \in Sessions |-> <<>>]
    /\ builds = [s \in Sessions |-> 0]
    /\ writes = 0
    /\ edits = 0
    /\ first_logger = 0

Init == InitWith(SharedCatalogs)

(***************************************************************************)
(* A page load: the host runs the session's script, which calls            *)
(* initialize().  The host runs one script at a time (PageLoad) or one     *)
(* thread per session (PageLoadThreaded).                                  *)
(***************************************************************************)
RECURSIVE Sum(_, _)
Sum(f, S) == IF S = {} THEN 0 ELSE LET x == CHOOSE x \in S : TRUE IN f[x] + Sum(f, S \ {x})

StartRun(s) ==
    /\ Sum(runs, Sessions) < MaxLoads
    /\ pc' = [pc EXCEPT ![s] = FirstStep]
    /\ runs' = [runs EXCEPT ![s] = @ + 1]
    /\ calls' = [calls EXCEPT ![s] = <<>>]
    /\ before' = [before EXCEPT ![s] = catalog]
    /\ UNCHANGED <<catalog, log_dir, handlers, keys, messages, session_id, retriever, result,
                   fieldnames, reader, rows, completion, builds, writes, edits, first_logger>>

PageLoad(s) ==
    /\ \A t \in Sessions : pc[t] = "idle"
    /\ StartRun(s)

PageLoadThreaded(s) ==
    /\ pc[s] = "idle"
    /\ StartRun(s)

\* initialize() is over: what the run kept for itself is gone.  `row` is the data
\* row the enrichment was at when it raised (0 otherwise).
EndRun(s, how, row) ==
    /\ pc' = [pc EXCEPT ![s] = "idle"]
    /\ result' = [result EXCEPT ![s] = [how |-> how, row |-> row]]
    /\ fieldnames' = [fieldnames EXCEPT ![s] = <<>>]
    /\ reader' = [reader EXCEPT ![s] = <<>>]
    /\ rows' = [rows EXCEPT ![s] = <<>>]
    /\ calls' = [calls EXCEPT ![s] = <<>>]
    /\ completion' = [completion EXCEPT ![s] = <<>>]
    /\ before' = [before EXCEPT ![s] = <<>>]

\* An exception leaves initialize(): no later step of the run is taken.
Raise(s, exception) ==
    EndRun(s, exception, IF pc[s] = "stock_loop" /\ reader[s] # <<>> THEN Len(rows[s]) + 1 ELSE 0)

\* A step of initialize() returns: the next step is called, or initialize() returns.
Return(s, step) ==
    IF StepAfter(step) = "idle"
    THEN EndRun(s, Returned, 0)
    ELSE /\ pc' = [pc EXCEPT ![s] = StepAfter(step)]
         /\ fieldnames' = [fieldnames EXCEPT ![s] = <<>>]
         /\ reader' = [reader EXCEPT ![s] = <<>>]
         /\ rows' = [rows EXCEPT ![s] = <<>>]
         /\ completion' = [completion EXCEPT ![s] = <<>>]
         /\ UNCHANGED <<result, calls, before>>

\* initialize_session_state without its presence check.
initialize_session_state_unguarded(s) ==
    /\ pc[s] = "initialize_session_state"
    /\ messages' = [messages EXCEPT ![s] = <<>>]
    /\ keys' = [keys EXCEPT ![s] = @ \cup {"messages"}]
    /\ Return(s, "initialize_session_state")
    /\ UNCHANGED <<catalog, log_dir, handlers, session_id, retriever, runs, builds, writes,
                   edits, first_logger>>

initialize_session_state(s) ==
    /\ pc[s] = "initialize_session_state"
    /\ IF "messages" \notin keys[s]
       THEN /\ messages' = [messages EXCEPT ![s] = <<>>]
            /\ keys' = [keys EXCEPT ![s] = @ \cup {"messages"}]
       ELSE UNCHANGED <<messages, keys>>
    /\ Return(s, "initialize_session_state")
    /\ UNCHANGED <<catalog, log_dir, handlers, session_id, retriever, runs, builds, writes,
                   edits, first_logger>>

\* uuid4().hex: a token no session has been given yet (the tokens are numbered in
\* the order they are generated).
uuid4(used) == CHOOSE u \in Uuids \ used : \A v \in Uuids \ used : u <= v

initialize_session_id(s) ==
    /\ pc[s] = "initialize_session_id"
    /\ IF "session_id" \notin keys[s]
       THEN /\ session_id' = [session_id EXCEPT ![s] = uuid4({session_id[t] : t \in Sessions})]
            /\ keys' = [keys EXCEPT ![s] = @ \cup {"session_id"}]
       ELSE UNCHANGED <<session_id, keys>>
    /\ Return(s, "initialize_session_id")
    /\ UNCHANGED <<catalog, log_dir, handlers, messages, retriever, runs, builds, writes,
                   edits, first_logger>>

(***************************************************************************)
(* initialize_logger.                                                      *)
(***************************************************************************)
\* A test that looks at the root logger's handlers only.
hasHandlersRootOnly(h, l) == h["root"] # <<>>

\* Logger.hasHandlers: the logger's own handlers, then those of its ancestors
\* (the only ancestor of the named logger is the root logger; propagate is on).
hasHandlers(h, l) == h[l] # <<>> \/ (l # "root" /\ h["root"] # <<>>)

\* The TimedRotatingFileHandler with the formatter of lines 69-72.
LogHandler(s) == [formatter |-> session_id[s]]

addHandler(h, l, handler) == [h EXCEPT ![l] = Append(@, handler)]

\* One whole call, with no other call of it under way.
initialize_logger(s) ==
    /\ pc[s] = "initialize_logger"
    /\ log_dir' = TRUE
    /\ first_logger' = IF first_logger = 0 THEN s ELSE first_logger
    /\ IF hasHandlers(handlers, "LOGGER_NAME")
       THEN UNCHANGED handlers
       ELSE handlers' = addHandler(handlers, "LOGGER_NAME", LogHandler(s))
    /\ Return(s, "initialize_logger")
    /\ UNCHANGED <<catalog, keys, messages, session_id, retriever, runs, builds, writes, edits>>

\* The same call in a host with one thread per session, where another session's
\* thread may run between the test of line 61 and the addHandler of line 74.
LoggerCheck(s) ==
    /\ pc[s] = "initialize_logger"
    /\ log_dir' = TRUE
    /\ first_logger' = IF first_logger = 0 THEN s ELSE first_logger
    /\ IF hasHandlers(handlers, "LOGGER_NAME")
       THEN Return(s, "initialize_logger")
       ELSE /\ pc' = [pc EXCEPT ![s] = "addHandler"]
            /\ UNCHANGED <<result, fieldnames, reader, rows, calls, completion, before>>
    /\ UNCHANGED <<catalog, handlers, keys, messages, session_id, retriever, runs, builds,
                   writes, edits>>

LoggerAttach(s) ==
    /\ pc[s] = "addHandler"
    /\ handlers' = addHandler(handlers, "LOGGER_NAME", LogHandler(s))
    /\ Return(s, "initialize_logger")
    /\ UNCHANGED <<catalog, log_dir, keys, messages, session_id, retriever, runs, builds,
                   writes, edits, first_logger>>

(***************************************************************************)
(* initialize_stock_status.                                                *)
(***************************************************************************)
\* Lines 162-171: open the file, read the header, return at once or set up the loop.
StockOpen(s) ==
    /\ pc[s] = "initialize_stock_status"
    /\ IF SkipEnrichment(Fieldnames(catalog))
       THEN Return(s, "initialize_stock_status")
       ELSE /\ pc' = [pc EXCEPT ![s] = "stock_loop"]
            /\ fieldnames' = [fieldnames EXCEPT ![s] = Fieldnames(catalog) \o <<"stock_status">>]
            /\ reader' = [reader EXCEPT ![s] = DataRows(catalog)]
            /\ rows' = [rows EXCEPT ![s] = <<>>]
            /\ UNCHANGED <<result, calls, completion, before>>
    /\ UNCHANGED <<catalog, log_dir, handlers, keys, messages, session_id, retriever, runs,
                   builds, writes, edits, first_logger>>

\* The dict the reader yields next (the reader's fieldnames are the file's own).
NextRow(s) == ReadRow(SubSeq(fieldnames[s], 1, Len(fieldnames[s]) - 1), Head(reader[s]))

\* Line 175 on a row without the key: KeyError.
StockRowKeyError(s) ==
    /\ pc[s] = "stock_loop" /\ reader[s] # <<>>
    /\ "name" \notin DOMAIN NextRow(s).fields
    /\ Raise(s, "KeyError")
    /\ UNCHANGED <<catalog, log_dir, handlers, keys, messages, session_id, retriever, runs,
                   builds, writes, edits, first_logger>>

\* A fault handled by saving the rows classified so far before raising.
StockRowFaultCheckpoint(s) ==
    /\ pc[s] = "stock_loop" /\ reader[s] # <<>>
    /\ "name" \in DOMAIN NextRow(s).fields
    /\ catalog' = Written(fieldnames[s], rows[s])
    /\ writes' = writes + 1
    /\ Raise(s, "ClassificationError")
    /\ UNCHANGED <<log_dir, handlers, keys, messages, session_id, retriever, runs,
                   builds, edits, first_logger>>

\* Lines 175-176 when the call of the language model (or the reading of its
\* response) raises.
StockRowFault(s) ==
    /\ pc[s] = "stock_loop" /\ reader[s] # <<>>
    /\ "name" \in DOMAIN NextRow(s).fields
    /\ Raise(s, "ClassificationError")
    /\ UNCHANGED <<catalog, log_dir, handlers, keys, messages, session_id, retriever, runs,
                   builds, writes, edits, first_logger>>

\* Lines 175-178 when the call returns a completion and generate_stock_status
\* returns stock_status.
Classified(s, stock_status) ==
    LET product_name == NextRow(s).fields["name"]
    IN  /\ pc[s] = "stock_loop" /\ reader[s] # <<>>
        /\ "name" \in DOMAIN NextRow(s).fields
        /\ calls' = [calls EXCEPT ![s] = Append(@, <<product_name, stock_status>>)]
        /\ rows' = [rows EXCEPT ![s] = Append(@, SetStatus(NextRow(s), stock_status))]
        /\ reader' = [reader EXCEPT ![s] = Tail(@)]
        /\ UNCHANGED <<catalog, log_dir, handlers, keys, messages, session_id, retriever, pc,
                       runs, result, fieldnames, before, builds, writes, edits, first_logger>>

StockRow(s) ==
    \E stock_status \in Answers : Classified(s, stock_status) /\ UNCHANGED completion

\* The same step with the completion kept, to set it against what was made of it.
StockRowTraced(s) ==
    \E content \in Responses :
        /\ Classified(s, generate_stock_status(content))
        /\ completion' = [completion EXCEPT ![s] = content]

\* Lines 181-184: the file is truncated, then the header and the rows are written;
\* a row DictWriter cannot convert raises ValueError with the file cut there.
StockWrite(s) ==
    /\ pc[s] = "stock_loop" /\ reader[s] = <<>>
    /\ catalog' = Written(fieldnames[s], rows[s])
    /\ writes' = writes + 1
    /\ IF \E i \in DOMAIN rows[s] : WrongFields(fieldnames[s], rows[s][i])
       THEN Raise(s, "ValueError")
       ELSE Return(s, "initialize_stock_status")
    /\ UNCHANGED <<log_dir, handlers, keys, messages, session_id, retriever, runs,
                   builds, edits, first_logger>>

(***************************************************************************)
(* initialize_retriever.                                                   *)
(***************************************************************************)
\* The ensemble retriever built from the file as it is now: the columns the
\* documents were loaded with, and which build of the session it is.
Ensemble(file, n) == [columns |-> Fieldnames(file), build |-> n]

\* initialize_retriever without its presence check: the path runs again.
RetrieverSkipRebuild(s) ==
    /\ pc[s] = "initialize_retriever"
    /\ "retriever" \in keys[s]
    /\ builds' = [builds EXCEPT ![s] = @ + 1]
    /\ retriever' = [retriever EXCEPT ![s] = Ensemble(catalog, builds[s] + 1)]
    /\ Return(s, "initialize_retriever")
    /\ UNCHANGED <<catalog, log_dir, handlers, keys, messages, session_id, runs,
                   writes, edits, first_logger>>

\* Lines 99-100: the retriever is there already.
RetrieverSkip(s) ==
    /\ pc[s] = "initialize_retriever"
    /\ "retriever" \in keys[s]
    /\ Return(s, "initialize_retriever")
    /\ UNCHANGED <<catalog, log_dir, handlers, keys, messages, session_id, retriever, runs,
                   builds, writes, edits, first_logger>>

\* Lines 102-130 when every call of the path returns.
RetrieverBuild(s) ==
    /\ pc[s] = "initialize_retriever"
    /\ "retriever" \notin keys[s]
    /\ builds' = [builds EXCEPT ![s] = @ + 1]
    /\ retriever' = [retriever EXCEPT ![s] = Ensemble(catalog, builds[s] + 1)]
    /\ keys' = [keys EXCEPT ![s] = @ \cup {"retriever"}]
    /\ Return(s, "initialize_retriever")
    /\ UNCHANGED <<catalog, log_dir, handlers, messages, session_id, runs,
                   writes, edits, first_logger>>

\* Lines 102-128 when the loader, the embedding service or a retriever raises.
RetrieverFault(s) ==
    /\ pc[s] = "initialize_retriever"
    /\ "retriever" \notin keys[s]
    /\ builds' = [builds EXCEPT ![s] = @ + 1]
    /\ Raise(s, "RetrieverError")
    /\ UNCHANGED <<catalog, log_dir, handlers, keys, messages, session_id, retriever, runs,
                   writes, edits, first_logger>>

(***************************************************************************)
(* What happens around initialize(): the chat code appends to the history, *)
(* and the catalog's data rows are edited from outside.                    *)
(***************************************************************************)
AppendMessage(s) ==
    /\ \A t \in Sessions : pc[t] = "idle"
    /\ result[s].how = Returned
    /\ Sum([t \in Sessions |-> Len(messages[t])], Sessions) < MaxMsgs
    /\ messages' = [messages EXCEPT ![s] = Append(@, "message")]
    /\ UNCHANGED <<catalog, log_dir, handlers, keys, session_id, retriever, pc, runs,
                   result, fieldnames, reader, rows, calls, completion, before, builds,
                   writes, edits, first_logger>>

EditCatalog ==
    /\ \A t \in Sessions : pc[t] = "idle"
    /\ edits < MaxEdits
    /\ catalog # <<>>
    /\ \/ catalog' = Append(catalog, Record(catalog[1], Len(catalog), "full"))
       \/ \E i \in 2..Len(catalog) :
             catalog[i] # <<>> /\ catalog' = [catalog EXCEPT ![i][1] = "edited"]
    /\ edits' = edits + 1
    /\ UNCHANGED <<log_dir, handlers, keys, messages, session_id, retriever, pc, runs,
                   result, fieldnames, reader, rows, calls, completion, before, builds,
                   writes, first_logger>>

(***************************************************************************)
(* The specifications.                                                     *)
(***************************************************************************)
\* The whole program: every session's page loads, one script run at a time.
Next ==
    \/ \E s \in Sessions :
        \/ PageLoad(s)
        \/ initialize_session_state(s)
        \/ initialize_session_id(s)
        \/ initialize_logger(s)
        \/ StockOpen(s)
        \/ StockRowKeyError(s)
        \/ StockRowFault(s)
        \/ StockRow(s)
        \/ StockWrite(s)
        \/ RetrieverSkip(s)
        \/ RetrieverBuild(s)
        \/ RetrieverFault(s)
        \/ AppendMessage(s)
    \/ EditCatalog

Spec == Init /\ [][Next]_vars

\* The enrichment on every catalog of Catalogs: the page loads of one session,
\* each followed until initialize_stock_status returns or raises.
NextEnrich ==
    \/ PageLoad(1)
    \/ initialize_session_state(1)
    \/ initialize_session_id(1)
    \/ initialize_logger(1)
    \/ StockOpen(1)
    \/ StockRowKeyError(1)
    \/ StockRowFault(1)
    \/ StockRow(1)
    \/ StockWrite(1)

SpecEnrich == InitWith(Catalogs) /\ [][NextEnrich]_vars

\* The validation of the completions: the enrichment of the plain catalogs, with
\* every completion kept.
NextGen ==
    \/ PageLoad(1)
    \/ initialize_session_state(1)
    \/ initialize_session_id(1)
    \/ initialize_logger(1)
    \/ StockOpen(1)
    \/ StockRowTraced(1)
    \/ StockWrite(1)

SpecGen == InitWith(PlainCatalogs) /\ [][NextGen]_vars

\* The logger in a host with one thread per session: the sessions' runs on a
\* catalog that has its stock_status column already, interleaved step by step.
NextRace ==
    \E s \in Sessions :
        \/ PageLoadThreaded(s)
        \/ initialize_session_state(s)
        \/ initialize_session_id(s)
        \/ LoggerCheck(s)
        \/ LoggerAttach(s)
        \/ StockOpen(s)
        \/ RetrieverSkip(s)
        \/ RetrieverBuild(s)
        \/ RetrieverFault(s)

SpecRace == InitWith(EnrichedCatalogs) /\ [][NextRace]_vars

(***************************************************************************)
(* The claims.                                                             *)
(***************************************************************************)
HasStatusColumn(file) == "stock_status" \in Range(Fieldnames(file))

InRun(s) == pc[s] # "idle"

\* C1: once the stock_status column is in the file (a run wrote it), every later
\* run of initialize_stock_status, by whichever session and whatever was done to
\* the data rows in between, leaves the file as it found it and makes no
\* classification call; so the file is written at most once.
C1_LaterRunsAreNoOps ==
    /\ writes <= 1
    /\ writes = 1 => HasStatusColumn(catalog)
    /\ \A s \in Sessions :
          InRun(s) /\ HasStatusColumn(before[s]) =>
              /\ pc[s] # "stock_loop"
              /\ catalog = before[s]
              /\ calls[s] = <<>>

\* A run that found the column another run had written, after an edit of the
\* rows, has come back from initialize_stock_status.
C1_Witness ==
    \E s \in Sessions :
        /\ pc[s] = "initialize_retriever"
        /\ writes = 1 /\ edits >= 1
        /\ HasStatusColumn(before[s])
        /\ DataRows(before[s]) # <<>>

NamePositions(h) == {j \in DOMAIN h : h[j] = "name"}

\* A header without stock_status, every row with a name field.
Enrichable(file) ==
    /\ Fieldnames(file) # <<>>
    /\ ~HasStatusColumn(file)
    /\ NamePositions(Fieldnames(file)) # {}
    /\ \A i \in DOMAIN DataRows(file) :
          \E j \in NamePositions(Fieldnames(file)) : j <= Len(DataRows(file)[i])

Padded(r, n) == [j \in 1..n |-> IF j <= Len(r) THEN r[j] ELSE ""]

\* What the claim says the file is after the run: the header with stock_status
\* after it, and row by row the fields as they were (a field the row did not have
\* being empty) with the answer given for the row's name after them.
EnrichedAsClaimed(file, answers) ==
    LET h == Fieldnames(file)
        rs == DataRows(file)
    IN  /\ Len(answers) = Len(rs)
        /\ \A i \in DOMAIN rs :
              answers[i][1] \in {rs[i][j] : j \in {k \in NamePositions(h) : k <= Len(rs[i])}}
        /\ catalog = <<h \o <<"stock_status">>>> \o
                        [i \in DOMAIN rs |-> Padded(rs[i], Len(h)) \o <<answers[i][2]>>]

DistinctNames(h) == \A i, j \in DOMAIN h : h[i] = h[j] => i = j

\* C2 as stated: after a completed run on a catalog with a header without
\* stock_status whose rows all carry a name, the file has the same rows in the
\* same order, every original column in place with its value, and stock_status as
\* the one new last column, holding the answer for the row's name.
C2_AsStated ==
    \A s \in Sessions :
        pc[s] = "initialize_retriever" /\ Enrichable(before[s]) =>
            EnrichedAsClaimed(before[s], calls[s])

\* C2 as amended: the same, for a header whose column names are all different.
C2_DistinctColumns ==
    \A s \in Sessions :
        pc[s] = "initialize_retriever" /\ Enrichable(before[s])
                                       /\ DistinctNames(Fieldnames(before[s])) =>
            EnrichedAsClaimed(before[s], calls[s])

\* A completed run on a catalog of two columns and three rows, one of them short.
C2_Witness ==
    /\ pc[1] = "initialize_retriever"
    /\ Enrichable(before[1]) /\ DistinctNames(Fieldnames(before[1]))
    /\ Len(Fieldnames(before[1])) = 2
    /\ Len(DataRows(before[1])) = 3
    /\ \E i \in 1..3 : Len(DataRows(before[1])[i]) = 1
    /\ {calls[1][i][2] : i \in 1..3} = {"ari", "nokoriwazuka"}

\* t is r without the whitespace around it.
IsTrimOf(t, r) ==
    \E i \in 1..(Len(r) + 1) : \E j \in 0..Len(r) :
        /\ t = SubSeq(r, i, j)
        /\ \A k \in 1..Len(r) : (k < i \/ k > j) => r[k] \in Whitespace
        /\ t # <<>> => t[1] \notin Whitespace /\ t[Len(t)] \notin Whitespace

\* C3: whatever the completion, the status made of it is one of the three
\* labels: the label the completion is once the whitespace around it is gone, and
\* "nashi" for every other completion; so every stock_status written to the file
\* is one of the three labels.
C3_ValidatedLabel ==
    \A s \in Sessions :
        /\ pc[s] = "stock_loop" /\ calls[s] # <<>> =>
              LET stock_status == calls[s][Len(calls[s])][2]
              IN  /\ stock_status \in Labels
                  /\ \A l \in Labels : IsTrimOf(<<l>>, completion[s]) => stock_status = l
                  /\ (\A l \in Labels : ~IsTrimOf(<<l>>, completion[s])) => stock_status = "nashi"
        /\ pc[s] = "initialize_retriever" =>
              \A i \in 2..Len(catalog) : catalog[i][Len(catalog[i])] \in Labels

\* A completion with whitespace on both sides of a label other than the fallback.
C3_Witness ==
    /\ pc[1] = "stock_loop"
    /\ completion[1] = <<" ", "ari">>
    /\ calls[1] # <<>> /\ calls[1][Len(calls[1])][2] = "ari"

\* C4: when the classification call fails at a row, first, middle or last, the
\* run ends there with the error, nothing of it is kept and the file is as it was
\* before the run; and a run that reaches the loop has the whole file before it:
\* the rows done and the rows to come are all the file's rows, one call per row done.
C4_FaultLeavesFileAlone ==
    /\ [][\A s \in Sessions :
            (pc[s] = "stock_loop" /\ result'[s] # result[s]
                                  /\ result'[s].how = "ClassificationError") =>
                /\ catalog' = catalog /\ catalog = before[s]
                /\ writes' = writes
                /\ pc'[s] = "idle"
                /\ rows'[s] = <<>> /\ calls'[s] = <<>>
                /\ retriever'[s] = retriever[s] /\ keys'[s] = keys[s]]_vars
    /\ [](\A s \in Sessions :
            pc[s] = "stock_loop" =>
                /\ catalog = before[s]
                /\ Len(rows[s]) + Len(reader[s]) = Len(DataRows(catalog))
                /\ Len(calls[s]) = Len(rows[s])
                /\ reader[s] = SubSeq(DataRows(catalog), Len(rows[s]) + 1, Len(DataRows(catalog))))

\* The run after a failure at the middle row of three has classified all three.
C4_Witness ==
    /\ result[1] = [how |-> "ClassificationError", row |-> 2]
    /\ runs[1] = 2
    /\ pc[1] = "stock_loop" /\ reader[1] = <<>>
    /\ Len(calls[1]) = 3
    /\ ~HasStatusColumn(catalog)

\* C5 as stated: a catalog without rows, be it an empty file or a header alone,
\* is left as it is and no classification call is made.
C5_AsStated ==
    \A s \in Sessions :
        pc[s] = "initialize_retriever" /\ DataRows(before[s]) = <<>> =>
            catalog = before[s] /\ calls[s] = <<>>

\* C5 as amended: no classification call is made; a file without a header is
\* left as it is, and so is one that has the column, while a header alone without
\* the column is written back with stock_status added to it.
C5_HeaderAloneIsRewritten ==
    \A s \in Sessions :
        pc[s] = "initialize_retriever" /\ DataRows(before[s]) = <<>> =>
            /\ calls[s] = <<>>
            /\ catalog = IF Fieldnames(before[s]) = <<>> \/ HasStatusColumn(before[s])
                         THEN before[s]
                         ELSE <<Fieldnames(before[s]) \o <<"stock_status">>>>

\* A run on a header alone has come back.
C5_Witness ==
    /\ pc[1] = "initialize_retriever"
    /\ before[1] = <<<<"name">>>>
    /\ catalog = <<<<"name", "stock_status">>>>
    /\ writes = 1

\* C6 as stated: in a session the construction path is entered once, whatever
\* the number of calls.
C6_AsStated == \A s \in Sessions : builds[s] <= 1

\* C6 as amended: once a call has stored the retriever, no later call enters the
\* construction path and the stored retriever stays the one that call built,
\* whatever becomes of the catalog; a call whose construction raises stores
\* nothing, and the next call enters the path again.
C6_BuiltOnceStored ==
    /\ [][\A s \in Sessions :
            "retriever" \in keys[s] =>
                /\ "retriever" \in keys'[s]
                /\ retriever'[s] = retriever[s]
                /\ builds'[s] = builds[s]]_vars
    /\ [](\A s \in Sessions :
            /\ "retriever" \in keys[s] => retriever[s].build = builds[s]
            /\ "retriever" \notin keys[s] => retriever[s].build = 0)

\* A second call in the session has short-circuited, the catalog edited meanwhile.
C6_Witness ==
    \E s \in Sessions :
        /\ runs[s] = 2 /\ pc[s] = "idle" /\ result[s].how = Returned
        /\ "retriever" \in keys[s] /\ builds[s] = 1
        /\ edits >= 1

\* C7: once session_id and messages are in the session state, no step of
\* initialize() changes them, and the history is never shortened.
C7_SessionStateKept ==
    [][\A s \in Sessions :
          /\ "session_id" \in keys[s] =>
                "session_id" \in keys'[s] /\ session_id'[s] = session_id[s]
          /\ "messages" \in keys[s] =>
                /\ "messages" \in keys'[s]
                /\ IsPrefix(messages[s], messages'[s])
                /\ (InRun(s) \/ pc'[s] # "idle") => messages'[s] = messages[s]]_vars

\* A second run of a session with a message in its history is past both checks.
C7_Witness ==
    \E s \in Sessions :
        /\ runs[s] = 2 /\ pc[s] = "initialize_logger"
        /\ messages[s] # <<>>
        /\ session_id[s] # 0

\* C8: with the calls of initialize_logger one after the other, a call attaches
\* a handler exactly when the named logger has none; so from the first call on the
\* logger has one handler, whose formatter carries the session id of the first
\* session that called.
C8_OneHandlerOfFirstSession ==
    /\ [][\A s \in Sessions :
            (pc[s] = "initialize_logger" /\ pc'[s] # pc[s]) =>
                IF handlers["LOGGER_NAME"] = <<>>
                THEN handlers'["LOGGER_NAME"] = <<[formatter |-> session_id[s]]>>
                ELSE handlers' = handlers]_vars
    /\ [](first_logger # 0 =>
            handlers["LOGGER_NAME"] = <<[formatter |-> session_id[first_logger]]>>)

\* A session other than the first has come back from initialize_logger.
C8_Witness ==
    \E s \in Sessions :
        /\ first_logger # 0 /\ s # first_logger
        /\ pc[s] = "initialize_stock_status"
        /\ session_id[s] # session_id[first_logger]
        /\ Len(handlers["LOGGER_NAME"]) = 1

\* C9: with two sessions in initialize_logger at once, the named logger still
\* ends with one handler under every interleaving.
C9_AsStated == Len(handlers["LOGGER_NAME"]) <= 1

\* The order of the steps of initialize().
StepOrder ==
    {<<"idle", "initialize_session_state">>,
     <<"initialize_session_state", "initialize_session_id">>,
     <<"initialize_session_id", "initialize_logger">>,
     <<"initialize_logger", "initialize_stock_status">>,
     <<"initialize_stock_status", "stock_loop">>,
     <<"initialize_stock_status", "initialize_retriever">>,
     <<"stock_loop", "initialize_retriever">>,
     <<"initialize_retriever", "idle">>}

EnrichmentErrors == {"KeyError", "ClassificationError", "ValueError"}

\* C10: the steps of initialize() run in the one order, a step only when the one
\* before it has returned; so a retriever in the session state was loaded from a
\* file that had no header or had the stock_status column, and a run whose
\* enrichment raised has left no retriever in the session state.
C10_EnrichedBeforeRetriever ==
    /\ [][\A s \in Sessions :
            /\ pc'[s] # pc[s] =>
                  \/ <<pc[s], pc'[s]>> \in StepOrder
                  \/ pc'[s] = "idle" /\ result'[s].how # Returned
            /\ (result'[s] # result[s] /\ result'[s].how \in EnrichmentErrors) =>
                  "retriever" \notin keys'[s]]_vars
    /\ [](\A s \in Sessions :
            "retriever" \in keys[s] /\ retriever[s].columns # <<>> =>
                "stock_status" \in Range(retriever[s].columns))

\* A session holds a retriever loaded from a catalog its own run enriched.
C10_Witness ==
    \E s \in Sessions :
        /\ "retriever" \in keys[s]
        /\ "stock_status" \in Range(retriever[s].columns)
        /\ writes = 1
        /\ runs[s] = 1 /\ Sum(runs, Sessions) = 1
====
